---------------------------- MODULE Spec2Model ----------------------------
(***************************************************************************)
(* Model of IndividualProject_ChristelleKhoury.py: a Streamlit script that *)
(* is re-executed top to bottom on every user interaction.  One script run *)
(* is the chain  gate -> load -> filter -> aggregate -> render -> idle;    *)
(* between runs only st.session_state, the widget values and the           *)
(* st.cache_data cache survive.                                            *)
(*                                                                         *)
(* Tables (DataFrames) are sequences of row records.  A missing number is  *)
(* NaN (the empty tuple), a missing label is NA.  A mean is an exact       *)
(* fraction <<numerator, denominator>> in lowest terms.                    *)
(***************************************************************************)
EXTENDS Integers, Sequences, FiniteSets, TLC

VARIABLES
    csv,                \* the remote CSV read by pd.read_csv (line 37)
    groupby_observed,   \* the installed pandas' default for groupby(observed=)
    session_state,      \* st.session_state: a dict
    typed,              \* the text last submitted in the "Password" input
    password_input,     \* TRUE while the "Password" text_input is on the page
    cache,              \* st.cache_data store of load_data: <<>> or <<table>>
    controls,           \* values of the three filter widgets, <<>> before they exist
    pc,                 \* position of the script run
    data,
    filtered_data,
    risk_data,
    chd_rate_gender,
    chd_rate_edu,
    color_map_edu,
    chd_rate_smoke,
    smokers_df,
    chd_rate_intensity,
    box_bmi,
    box_chol,
    chd_rate_bp,
    page,               \* what the browser shows
    previous            \* the aggregates of the last finished run with the
                        \* current widget values, Unset when there is none

script_vars == <<data, filtered_data, risk_data, chd_rate_gender, chd_rate_edu,
                 color_map_edu, chd_rate_smoke, smokers_df, chd_rate_intensity,
                 box_bmi, box_chol, chd_rate_bp>>

vars == <<csv, groupby_observed, session_state, typed, password_input, cache, controls,
          pc, script_vars, page, previous>>

-----------------------------------------------------------------------------
(* Bounds *)

MaxRows == 2

-----------------------------------------------------------------------------
(* Missing values *)

NaN == <<>>
NA == "<NA>"

-----------------------------------------------------------------------------
(* The CSV: rows over the columns the script reads *)

Row(g, a, s, c, e, b, t, bp, y) ==
    [gender |-> g, age |-> a, currentSmoker |-> s, cigsPerDay |-> c,
     education |-> e, BMI |-> b, totChol |-> t, BP_Category |-> bp,
     TenYearCHD |-> y]

RowPool ==
    { Row("Male",   40, 1,  9, <<1>>, 22, 180, "Normal",               0),
      Row("Male",   40, 1,  9, <<1>>, 33, 260, "Normal",               1),
      Row("Male",   41, 1, 10, <<4>>, 31, 250, "Hypertension Stage 2", 1),
      Row("Female", 41, 1, 25, <<2>>, 27, 210, "Elevated",             1),
      Row("Female", 40, 0,  0, <<>>,  24, 190, "Hypertension Stage 1", 0),
      Row("Male",   42, 0,  0, <<5>>, 29, 230, "Normal",               1),
      Row("Female", 42, 1, 70, <<3>>, 26, 200, "Elevated",             0) }

Tables == UNION { [1..n -> RowPool] : n \in 1..MaxRows }

Passphrases == {"CHD2025", "chd2025", "CHD2025 ", ""}

RiskFactors == {"Smoking", "Body Weight", "Blood Pressure"}

-----------------------------------------------------------------------------
(* Arithmetic on exact fractions *)

RECURSIVE GCD(_, _)
GCD(a, b) == IF b = 0 THEN a ELSE GCD(b, a % b)

Frac(n, d) == LET g == GCD(n, d) IN <<n \div g, d \div g>>

RECURSIVE SumSeq(_)
SumSeq(s) == IF s = <<>> THEN 0 ELSE Head(s) + SumSeq(Tail(s))

\* an empty group given the rate 0
mean_zero_fill(vals) == IF vals = <<>> THEN <<0, 1>> ELSE Frac(SumSeq(vals), Len(vals))

\* Series.mean(): NaN for an empty group
mean(vals) == IF vals = <<>> THEN NaN ELSE Frac(SumSeq(vals), Len(vals))

\* the mean left as a share of 1
times100_unscaled(m) == m

\* series * 100; NaN stays NaN
times100(m) == IF m = NaN THEN NaN ELSE Frac(100 * m[1], m[2])

\* a > b on fractions
FracGT(a, b) == a[1] * b[2] > b[1] * a[2]

-----------------------------------------------------------------------------
(* Table helpers *)

\* df[col] as a sequence of values
Column(df, col) == [i \in 1..Len(df) |-> df[i][col]]

\* df[df[col] == v]
WhereEq(df, col, v) == SelectSeq(df, LAMBDA r : r[col] = v)

\* position of v in the sequence s, Len(s) + 1 when absent
IndexOf(s, v) ==
    IF \E i \in 1..Len(s) : s[i] = v
    THEN CHOOSE i \in 1..Len(s) : s[i] = v /\ \A j \in 1..(i - 1) : s[j] # v
    ELSE Len(s) + 1

\* rows of s in ascending order of the integer keys rank[i], ties in their
\* original order (number of rows placed before row i, plus one, is its place)
StableSort(s, rank) ==
    LET n == Len(s)
        place(i) == 1 + Cardinality({ j \in 1..n :
                        rank[j] < rank[i] \/ (rank[j] = rank[i] /\ j < i) })
    IN  [k \in 1..n |-> s[CHOOSE i \in 1..n : place(i) = k]]

-----------------------------------------------------------------------------
(* load_data, lines 34-42 *)

Smoking_Status(x) == IF x = 1 THEN "Current Smoker" ELSE "Non-Smoker"

education_map ==
    (1 :> "Some High School") @@ (2 :> "High School/GED") @@
    (3 :> "Some College") @@ (4 :> "College")

\* an unmapped code given the lowest level instead of a missing label
Education_Level_default(e) ==
    IF e # NaN /\ e[1] \in DOMAIN education_map THEN education_map[e[1]]
    ELSE "Some High School"

\* Series.map(dict): a key the dict lacks, or a missing value, maps to missing
Education_Level(e) ==
    IF e # NaN /\ e[1] \in DOMAIN education_map THEN education_map[e[1]] ELSE NA

\* the body of load_data: read the CSV and append the two label columns
read_and_label(raw) ==
    [i \in 1..Len(raw) |->
        raw[i] @@ [Smoking_Status  |-> Smoking_Status(raw[i].currentSmoker),
                   Education_Level |-> Education_Level(raw[i].education)]]

\* the label columns appended on a miss only, the stored table lacking them
load_data_labels_once(store, raw) ==
    IF store = <<>> THEN read_and_label(raw)
    ELSE [i \in 1..Len(store[1]) |-> [store[1][i] EXCEPT !.Education_Level = NA]]

\* st.cache_data: the body runs on a miss only, and the stored table is returned
load_data(store, raw) == IF store = <<>> THEN read_and_label(raw) ELSE store[1]

-----------------------------------------------------------------------------
(* Filter widgets, lines 53-58 *)

unique(df, col) == { df[i][col] : i \in 1..Len(df) }

age_min(df) == CHOOSE a \in unique(df, "age") : \A b \in unique(df, "age") : a <= b
age_max(df) == CHOOSE a \in unique(df, "age") : \A b \in unique(df, "age") : a >= b

\* the values the widgets take when first created
default_controls(df) ==
    [gender_options |-> unique(df, "gender"),
     age_range      |-> <<age_min(df), age_max(df)>>,
     risk_factor    |-> "Smoking"]

\* every setting one user interaction can produce from the settings c: exactly
\* one of the three widgets takes another of its values
Selectable(df, c) ==
    { [c EXCEPT !.gender_options = g] : g \in (SUBSET unique(df, "gender")) \ {c.gender_options} }
    \cup
    { [c EXCEPT !.age_range = <<lo, hi>>] :
        <<lo, hi>> \in { r \in (age_min(df)..age_max(df)) \X (age_min(df)..age_max(df)) :
                           r[1] <= r[2] /\ r # c.age_range } }
    \cup
    { [c EXCEPT !.risk_factor = rf] : rf \in RiskFactors \ {c.risk_factor} }

-----------------------------------------------------------------------------
(* Filtering, lines 60-65 *)

isin(v, values) == v \in values

\* the upper bound taken as exclusive
between_right_open(v, left, right) == left <= v /\ v < right

\* Series.between(left, right), inclusive="both"
between(v, left, right) == left <= v /\ v <= right

filter_rows(df, gender_options, age_range) ==
    SelectSeq(df, LAMBDA r : isin(r.gender, gender_options)
                             /\ between(r.age, age_range[1], age_range[2]))

risk_rows(df) == WhereEq(df, "TenYearCHD", 1)

-----------------------------------------------------------------------------
(* Rate by category, lines 73-74, 87-88, 102-103, 111-112, 128-129 *)

\* Python's order of the labels of each grouped column (groupby sorts its keys)
sorted_gender == <<"Female", "Male">>
sorted_education == <<"College", "High School/GED", "Some College", "Some High School">>
sorted_smoking == <<"Current Smoker", "Non-Smoker">>
sorted_bp == <<"Elevated", "Hypertension Stage 1", "Hypertension Stage 2", "Normal">>

\* the group keys: the labels that occur, in sorted order; a categorical column
\* grouped with observed=False yields every category, occurring or not.
\* Rows whose label is missing belong to no group (dropna=True).
group_keys(df, col, sorted_keys, all_categories) ==
    SelectSeq(sorted_keys, LAMBDA k : all_categories \/ k \in unique(df, col))

\* df.groupby(col)['TenYearCHD'].mean().reset_index(), then the percent column
chd_rate(df, col, sorted_keys, all_categories) ==
    LET keys == group_keys(df, col, sorted_keys, all_categories)
    IN  [i \in 1..Len(keys) |->
            LET m == mean(Column(WhereEq(df, col, keys[i]), "TenYearCHD"))
            IN  [category |-> keys[i], TenYearCHD |-> m, CHD_Risk |-> times100(m)]]

-----------------------------------------------------------------------------
(* Education and blood-pressure ordering, lines 86-95 and 130-132 *)

CUSTOM_RED_PALETTE == <<"#800020", "#993333", "#A64A4A", "#BFBFBF">>
edu_order == <<"Some High School", "High School/GED", "Some College", "College">>
bp_order == <<"Normal", "Elevated", "Hypertension Stage 1", "Hypertension Stage 2">>

\* rates.sort_values('CHD_Risk_%', ascending=False): a new table
sort_by_risk(rates) ==
    StableSort(rates,
               [i \in 1..Len(rates) |->
                   Cardinality({ j \in 1..Len(rates) :
                                   FracGT(rates[j].CHD_Risk, rates[i].CHD_Risk) })])

\* {cat: color for cat, color in zip(sorted_by_risk[...], CUSTOM_RED_PALETTE)}
color_map(sorted_by_risk) ==
    LET n == IF Len(sorted_by_risk) < Len(CUSTOM_RED_PALETTE)
             THEN Len(sorted_by_risk) ELSE Len(CUSTOM_RED_PALETTE)
    IN  [c \in { sorted_by_risk[i].category : i \in 1..n } |->
            CUSTOM_RED_PALETTE[CHOOSE i \in 1..n :
                /\ sorted_by_risk[i].category = c
                /\ \A j \in (i + 1)..n : sorted_by_risk[j].category # c]]

\* pd.Categorical(column, categories=order, ordered=True): a label outside the
\* categories becomes missing
as_categorical(rates, order) ==
    [i \in 1..Len(rates) |->
        [rates[i] EXCEPT !.category =
            IF \E k \in 1..Len(order) : order[k] = @ THEN @ ELSE NA]]

\* rates.sort_values(column) on an ordered categorical: by category position,
\* missing last
sort_by_category(rates, order) ==
    StableSort(rates, [i \in 1..Len(rates) |-> IndexOf(order, rates[i].category)])

\* the risk ranking kept as the row order
in_risk_order(rates, order) == sort_by_risk(as_categorical(rates, order))

\* lines 94-95 and 131-132
in_fixed_order(rates, order) == sort_by_category(as_categorical(rates, order), order)

-----------------------------------------------------------------------------
(* Smoking intensity, lines 107-112 *)

bins == <<0, 9, 19, 70>>
labels == <<"Light (1-9)", "Moderate (10-19)", "Heavy (20+)">>

\* pd.cut(x, bins=bins, labels=labels, right=False): bin i is
\* bins[i] <= x < bins[i+1]; a value in no bin is missing
cut(x) ==
    IF \E i \in 1..Len(labels) : bins[i] <= x /\ x < bins[i + 1]
    THEN labels[CHOOSE i \in 1..Len(labels) : bins[i] <= x /\ x < bins[i + 1]]
    ELSE NA

\* filtered_data[filtered_data['currentSmoker'] == 1].copy() with the new column
smokers_with_intensity(df) ==
    LET smokers == WhereEq(df, "currentSmoker", 1)
    IN  [i \in 1..Len(smokers) |->
            smokers[i] @@ [Smoking_Intensity |-> cut(smokers[i].cigsPerDay)]]

-----------------------------------------------------------------------------
(* Box-plot value sequences, lines 117-125 *)

\* the second trace fed the whole table
box_values_unsplit(df, col) ==
    [No_CHD   |-> Column(WhereEq(df, "TenYearCHD", 0), col),
     CHD_Risk |-> Column(df, col)]

box_values(df, col) ==
    [No_CHD   |-> Column(WhereEq(df, "TenYearCHD", 0), col),
     CHD_Risk |-> Column(WhereEq(df, "TenYearCHD", 1), col)]

-----------------------------------------------------------------------------
(* Access gate, lines 10-32 *)

set_item(dict, key, value) ==
    [k \in DOMAIN dict \cup {key} |-> IF k = key THEN value ELSE dict[k]]

del_item(dict, key) == [k \in DOMAIN dict \ {key} |-> dict[k]]

\* the on_change callback of the password input
password_entered(ss) ==
    IF ss["password"] = "CHD2025"
    THEN del_item(set_item(ss, "password_correct", TRUE), "password")
    ELSE set_item(ss, "password_correct", FALSE)

\* a session without the key let through
check_password_open(ss) ==
    IF "password_correct" \notin DOMAIN ss THEN TRUE
    ELSE IF ~ss["password_correct"] THEN FALSE
    ELSE TRUE

\* the value check_password returns
check_password(ss) ==
    IF "password_correct" \notin DOMAIN ss THEN FALSE
    ELSE IF ~ss["password_correct"] THEN FALSE
    ELSE TRUE

\* the input rendered in every branch
renders_password_input_always(ss) == TRUE

\* whether check_password puts the text_input on the page
renders_password_input(ss) ==
    "password_correct" \notin DOMAIN ss \/ ~ss["password_correct"]

\* the current text of the password widget
widget_value(ss) == IF "password" \in DOMAIN ss THEN ss["password"] ELSE ""

\* a rendered text_input with key="password" owns session_state["password"]
register_widget(ss) ==
    IF renders_password_input(ss) /\ "password" \notin DOMAIN ss
    THEN set_item(ss, "password", "")
    ELSE ss

\* whether check_password shows st.error
renders_error(ss) ==
    "password_correct" \in DOMAIN ss /\ ~ss["password_correct"]

-----------------------------------------------------------------------------
(* Charts and layout, lines 75-165 *)

fig_bar(rates) ==
    [x |-> Column(rates, "category"), y |-> Column(rates, "CHD_Risk")]

bottom_row(rf, smoke, intensity, bmi, chol, bp) ==
    IF rf = "Smoking" THEN <<fig_bar(smoke), fig_bar(intensity)>>
    ELSE IF rf = "Body Weight" THEN <<bmi, chol>>
    ELSE IF rf = "Blood Pressure" THEN <<fig_bar(bp)>>
    ELSE <<>>

-----------------------------------------------------------------------------
(* The script run *)

Unset == <<>>

Init ==
    /\ csv \in Tables
    /\ groupby_observed \in BOOLEAN
    /\ session_state = <<>>
    /\ typed = ""
    /\ password_input = FALSE
    /\ cache = <<>>
    /\ controls = Unset
    /\ pc = "gate"
    /\ data = Unset /\ filtered_data = Unset /\ risk_data = Unset
    /\ chd_rate_gender = Unset /\ chd_rate_edu = Unset /\ color_map_edu = Unset
    /\ chd_rate_smoke = Unset /\ smokers_df = Unset /\ chd_rate_intensity = Unset
    /\ box_bmi = Unset /\ box_chol = Unset /\ chd_rate_bp = Unset
    /\ page = [kind |-> "blank"]
    /\ previous = Unset

\* a rerun starts with a fresh script namespace
FreshNamespace ==
    /\ data' = Unset /\ filtered_data' = Unset /\ risk_data' = Unset
    /\ chd_rate_gender' = Unset /\ chd_rate_edu' = Unset /\ color_map_edu' = Unset
    /\ chd_rate_smoke' = Unset /\ smokers_df' = Unset /\ chd_rate_intensity' = Unset
    /\ box_bmi' = Unset /\ box_chol' = Unset /\ chd_rate_bp' = Unset

\* lines 18-26 and 31-32: the gate is closed, the input is shown, st.stop()
RunGateStop ==
    /\ pc = "gate"
    /\ ~check_password(session_state)
    /\ password_input' = renders_password_input(session_state)
    /\ session_state' = register_widget(session_state)
    /\ page' = [kind |-> "password", error |-> renders_error(session_state)]
    /\ pc' = "idle"
    /\ UNCHANGED <<csv, groupby_observed, typed, cache, controls, script_vars,
                   previous>>

\* lines 27-31: the gate is open, the script goes on
RunGatePass ==
    /\ pc = "gate"
    /\ check_password(session_state)
    /\ password_input' = renders_password_input(session_state)
    /\ session_state' = register_widget(session_state)
    /\ pc' = "load"
    /\ UNCHANGED <<csv, groupby_observed, typed, cache, controls, script_vars, page,
                   previous>>

\* lines 45-58: load_data and the filter widgets
LoadData ==
    /\ pc = "load"
    /\ data' = load_data(cache, csv)
    /\ cache' = IF cache = <<>> THEN <<data'>> ELSE cache
    /\ controls' = IF controls = Unset THEN default_controls(data') ELSE controls
    /\ pc' = "filter"
    /\ UNCHANGED <<csv, groupby_observed, session_state, typed, password_input,
                   filtered_data, risk_data, chd_rate_gender, chd_rate_edu,
                   color_map_edu, chd_rate_smoke, smokers_df, chd_rate_intensity,
                   box_bmi, box_chol, chd_rate_bp, page, previous>>

\* lines 60-65
Filter ==
    /\ pc = "filter"
    /\ filtered_data' = filter_rows(data, controls.gender_options, controls.age_range)
    /\ risk_data' = risk_rows(filtered_data')
    /\ pc' = "aggregate"
    /\ UNCHANGED <<csv, groupby_observed, session_state, typed, password_input, cache,
                   controls, data, chd_rate_gender, chd_rate_edu, color_map_edu,
                   chd_rate_smoke, smokers_df, chd_rate_intensity, box_bmi,
                   box_chol, chd_rate_bp, page, previous>>

\* lines 73-132
Aggregate ==
    /\ pc = "aggregate"
    /\ chd_rate_gender' = chd_rate(filtered_data, "gender", sorted_gender, FALSE)
    /\ LET rates == chd_rate(filtered_data, "Education_Level", sorted_education, FALSE)
       IN  /\ color_map_edu' = color_map(sort_by_risk(rates))
           /\ chd_rate_edu' = in_fixed_order(rates, edu_order)
    /\ chd_rate_smoke' = chd_rate(filtered_data, "Smoking_Status", sorted_smoking, FALSE)
    /\ smokers_df' = smokers_with_intensity(filtered_data)
    /\ chd_rate_intensity' =
           chd_rate(smokers_df', "Smoking_Intensity", labels, ~groupby_observed)
    /\ box_bmi' = box_values(filtered_data, "BMI")
    /\ box_chol' = box_values(filtered_data, "totChol")
    /\ chd_rate_bp' =
           in_fixed_order(chd_rate(filtered_data, "BP_Category", sorted_bp, FALSE),
                          bp_order)
    /\ pc' = "render"
    /\ UNCHANGED <<csv, groupby_observed, session_state, typed, password_input, cache,
                   controls, data, filtered_data, risk_data, page, previous>>

\* lines 138-165
Render ==
    /\ pc = "render"
    /\ page' = [kind   |-> "dashboard",
                top    |-> <<fig_bar(chd_rate_gender),
                             Column(risk_data, "age"),
                             fig_bar(chd_rate_edu) @@ [colors |-> color_map_edu]>>,
                bottom |-> bottom_row(controls.risk_factor, chd_rate_smoke,
                                      chd_rate_intensity, box_bmi, box_chol,
                                      chd_rate_bp)]
    /\ previous' = <<risk_data, chd_rate_gender, chd_rate_edu, color_map_edu,
                      chd_rate_smoke, chd_rate_intensity, box_bmi, box_chol,
                      chd_rate_bp>>
    /\ pc' = "idle"
    /\ UNCHANGED <<csv, groupby_observed, session_state, typed, password_input, cache,
                   controls, script_vars>>

\* the user submits text p in the password input: the callback runs, then a rerun
EnterPassword(p) ==
    /\ pc = "idle"
    /\ password_input
    /\ p # widget_value(session_state)
    /\ typed' = p
    /\ session_state' = password_entered(set_item(session_state, "password", p))
    /\ page' = [kind |-> "stale"]
    /\ previous' = Unset
    /\ pc' = "gate"
    /\ FreshNamespace
    /\ UNCHANGED <<csv, groupby_observed, password_input, cache, controls>>

\* the user changes one filter widget: a rerun with the new value
ChangeFilter ==
    /\ pc = "idle"
    /\ controls # Unset
    /\ page.kind = "dashboard"
    /\ \E c \in Selectable(data, controls) : controls' = c
    /\ page' = [kind |-> "stale"]
    /\ previous' = Unset
    /\ pc' = "gate"
    /\ FreshNamespace
    /\ UNCHANGED <<csv, groupby_observed, session_state, typed, password_input, cache>>

\* the user reruns the script with nothing changed
Rerun ==
    /\ pc = "idle"
    /\ pc' = "gate"
    /\ FreshNamespace
    /\ UNCHANGED <<csv, groupby_observed, session_state, typed, password_input, cache,
                   controls, page, previous>>

Next ==
    \/ RunGateStop
    \/ RunGatePass
    \/ LoadData
    \/ Filter
    \/ Aggregate
    \/ Render
    \/ \E p \in Passphrases : EnterPassword(p)
    \/ ChangeFilter
    \/ Rerun

Spec == Init /\ [][Next]_vars

-----------------------------------------------------------------------------
(* Properties *)

\* how far the current run has got (the script variables below are bound)
Loaded == pc \in {"filter", "aggregate", "render"} \/ (pc = "idle" /\ page.kind = "dashboard")
Filtered == pc \in {"aggregate", "render"} \/ (pc = "idle" /\ page.kind = "dashboard")
Aggregated == pc = "render" \/ (pc = "idle" /\ page.kind = "dashboard")

Count(s, v) == Cardinality({ i \in 1..Len(s) : s[i] = v })

Rows(df) == { df[i] : i \in 1..Len(df) }

Selected(r) ==
    /\ r.gender \in controls.gender_options
    /\ controls.age_range[1] <= r.age
    /\ r.age <= controls.age_range[2]

\* C1: the filtered table holds exactly the loaded rows whose gender is selected
\* and whose age lies in [min, max], both bounds inclusive: every selected row is
\* kept as often as it occurs, every other row is absent.
C1_FilterExact ==
    Filtered =>
        \A r \in Rows(data) \cup Rows(filtered_data) :
            Count(filtered_data, r) = IF Selected(r) THEN Count(data, r) ELSE 0

\* a row kept on the inclusive upper bound, another dropped for its age alone
C1_Witness ==
    /\ Filtered
    /\ \E i \in 1..Len(filtered_data) : filtered_data[i].age = controls.age_range[2]
    /\ \E i \in 1..Len(data) :
          /\ data[i].gender \in controls.gender_options
          /\ data[i].age > controls.age_range[2]

\* the reported rate of every category of column col that has a row in df is
\* 100 x (rows with TenYearCHD = 1) / (rows), and lies in [0, 100]
RateIsShare(rates, df, col) ==
    \A k \in unique(df, col) \ {NA} :
        LET n   == Cardinality({ j \in 1..Len(df) : df[j][col] = k })
            pos == Cardinality({ j \in 1..Len(df) : df[j][col] = k /\ df[j].TenYearCHD = 1 })
        IN  /\ Cardinality({ i \in 1..Len(rates) : rates[i].category = k }) = 1
            /\ \A i \in 1..Len(rates) :
                  rates[i].category = k =>
                      LET pct == rates[i].CHD_Risk
                      IN  /\ pct # NaN
                          /\ pct[2] > 0
                          /\ pct[1] * n = 100 * pos * pct[2]
                          /\ 0 <= pct[1] /\ pct[1] <= 100 * pct[2]
                          /\ (pos = 0 => pct = <<0, 1>>)

\* C2: in each of the five rate aggregates, every category with at least one row
\* reports 100 x cases / rows, a value in [0, 100], and 0 when it has no case.
C2_RateIsShare ==
    Aggregated =>
        /\ RateIsShare(chd_rate_gender, filtered_data, "gender")
        /\ RateIsShare(chd_rate_edu, filtered_data, "Education_Level")
        /\ RateIsShare(chd_rate_smoke, filtered_data, "Smoking_Status")
        /\ RateIsShare(chd_rate_intensity, smokers_df, "Smoking_Intensity")
        /\ RateIsShare(chd_rate_bp, filtered_data, "BP_Category")

\* one category at 50 %, and the intensity aggregate has a rated band
C2_Witness ==
    /\ Aggregated
    /\ \E i \in 1..Len(chd_rate_gender) : chd_rate_gender[i].CHD_Risk = <<50, 1>>
    /\ \E i \in 1..Len(chd_rate_intensity) : chd_rate_intensity[i].CHD_Risk = <<50, 1>>

\* the rated bands of the intensity aggregate
RatedBands == { chd_rate_intensity[i].category :
                  i \in { j \in 1..Len(chd_rate_intensity) :
                            chd_rate_intensity[j].CHD_Risk # NaN } }

\* the filtered smokers the code put in band b
InBand(b) == { i \in 1..Len(smokers_df) : smokers_df[i].Smoking_Intensity = b }

\* C3: a current smoker with 9 cigarettes a day counts in "Light (1-9)", with 10
\* in "Moderate (10-19)", with 25 in "Heavy (20+)", and no row with
\* currentSmoker # 1 contributes to the smoking-intensity aggregate.
C3_Buckets ==
    Aggregated =>
        /\ \A i \in 1..Len(smokers_df) :
              /\ smokers_df[i].currentSmoker = 1
              /\ smokers_df[i].cigsPerDay = 9 =>
                    i \in InBand("Light (1-9)") /\ "Light (1-9)" \in RatedBands
              /\ smokers_df[i].cigsPerDay = 10 =>
                    i \in InBand("Moderate (10-19)") /\ "Moderate (10-19)" \in RatedBands
              /\ smokers_df[i].cigsPerDay = 25 =>
                    i \in InBand("Heavy (20+)") /\ "Heavy (20+)" \in RatedBands
        /\ Len(smokers_df) = Count(Column(filtered_data, "currentSmoker"), 1)

Categories(rates) == Column(rates, "category")

\* the categories of rates are distinct members of order, in the order of order
FollowsOrder(rates, order) ==
    /\ \A i \in 1..Len(rates) : IndexOf(order, rates[i].category) <= Len(order)
    /\ \A i, j \in 1..Len(rates) :
          i < j => IndexOf(order, rates[i].category) < IndexOf(order, rates[j].category)

\* C4: the education aggregate lists its categories in the order Some High
\* School, High School/GED, Some College, College and the blood-pressure
\* aggregate in the order Normal, Elevated, Stage 1, Stage 2, whatever the row
\* order and the rates; the risk ranking only picks the colours: a category
\* with a higher rate never gets a later palette colour.
C4_FixedOrder ==
    Aggregated =>
        /\ FollowsOrder(chd_rate_edu, edu_order)
        /\ FollowsOrder(chd_rate_bp, bp_order)
        /\ DOMAIN color_map_edu = { chd_rate_edu[i].category : i \in 1..Len(chd_rate_edu) }
        /\ \A i, j \in 1..Len(chd_rate_edu) :
              FracGT(chd_rate_edu[i].CHD_Risk, chd_rate_edu[j].CHD_Risk) =>
                  IndexOf(CUSTOM_RED_PALETTE, color_map_edu[chd_rate_edu[i].category])
                  < IndexOf(CUSTOM_RED_PALETTE, color_map_edu[chd_rate_edu[j].category])

\* two education categories whose risk ranking is the reverse of the fixed order,
\* two blood-pressure categories whose alphabetical order is the reverse of it
C4_Witness ==
    /\ Aggregated
    /\ Len(chd_rate_edu) = 2
    /\ FracGT(chd_rate_edu[2].CHD_Risk, chd_rate_edu[1].CHD_Risk)
    /\ Len(chd_rate_bp) = 2
    /\ IndexOf(sorted_bp, chd_rate_bp[1].category) > IndexOf(sorted_bp, chd_rate_bp[2].category)

GateOpen == "password_correct" \in DOMAIN session_state /\ session_state["password_correct"] = TRUE

\* C6: no part of the pipeline runs, and nothing of it exists, in a session whose
\* gate is not open, and the gate is open only after the text "CHD2025" itself
\* was entered.
C6_GateBeforePipeline ==
    /\ (\/ pc \in {"load", "filter", "aggregate", "render"}
        \/ cache # <<>>
        \/ controls # Unset
        \/ data # Unset
        \/ page.kind = "dashboard") => GateOpen
    /\ GateOpen => typed = "CHD2025"

\* a run stopped at the gate after a near-miss entry, nothing loaded
C6_Witness ==
    /\ pc = "idle"
    /\ page.kind = "password"
    /\ page.error
    /\ typed = "chd2025"
    /\ cache = <<>>

\* the two sequences of box split the values of column col by TenYearCHD
BoxSplits(box, col) ==
    /\ \A v \in unique(filtered_data, col) :
          /\ Count(box.No_CHD, v) =
                Cardinality({ i \in 1..Len(filtered_data) :
                    filtered_data[i][col] = v /\ filtered_data[i].TenYearCHD = 0 })
          /\ Count(box.CHD_Risk, v) =
                Cardinality({ i \in 1..Len(filtered_data) :
                    filtered_data[i][col] = v /\ filtered_data[i].TenYearCHD = 1 })
    /\ Len(box.No_CHD) + Len(box.CHD_Risk) = Len(filtered_data)

\* C7: for BMI and cholesterol, each filtered row's value is in the 'No CHD'
\* sequence exactly when its TenYearCHD is 0 and in the 'CHD Risk' sequence
\* exactly when it is 1, and the two sequences together have one value per
\* filtered row.
C7_BoxPartition ==
    Aggregated => BoxSplits(box_bmi, "BMI") /\ BoxSplits(box_chol, "totChol")

\* one row without and one row with CHD in the filtered table
C7_Witness ==
    /\ Aggregated
    /\ Len(box_bmi.No_CHD) = 1 /\ Len(box_bmi.CHD_Risk) = 1
    /\ Len(box_chol.No_CHD) = 1 /\ Len(box_chol.CHD_Risk) = 1

MappedCodes == { <<1>>, <<2>>, <<3>>, <<4>> }

Unmapped(df) == { i \in 1..Len(df) : df[i].education \notin MappedCodes }

\* the code education_map sends to the label
CodeOf(label) == CHOOSE c \in DOMAIN education_map : education_map[c] = label

\* C8: a row whose education code is not 1, 2, 3 or 4 (a missing code too) has a
\* missing Education_Level, counts in no category of the education aggregate
\* (each category's rate is the share among the rows with its own code), and
\* counts in the gender, smoking-status and blood-pressure aggregates and in
\* the BMI and cholesterol sequences.
C8_UnmappedEducation ==
    /\ Loaded => \A i \in Unmapped(data) : data[i].Education_Level = NA
    /\ Aggregated =>
          /\ \A k \in 1..Len(chd_rate_edu) :
                /\ chd_rate_edu[k].category \in { education_map[c] : c \in DOMAIN education_map }
                /\ LET own == { j \in 1..Len(filtered_data) :
                                  filtered_data[j].education = <<CodeOf(chd_rate_edu[k].category)>> }
                       pos == { j \in own : filtered_data[j].TenYearCHD = 1 }
                       pct == chd_rate_edu[k].CHD_Risk
                   IN  pct[1] * Cardinality(own) = 100 * Cardinality(pos) * pct[2]
          /\ \A i \in Unmapped(filtered_data) :
                LET r == filtered_data[i]
                    same(col) == { j \in 1..Len(filtered_data) : filtered_data[j][col] = r[col] }
                    share(col) == Frac(100 * Cardinality({ j \in same(col) :
                                                filtered_data[j].TenYearCHD = 1 }),
                                       Cardinality(same(col)))
                IN  /\ \E k \in 1..Len(chd_rate_gender) :
                          /\ chd_rate_gender[k].category = r.gender
                          /\ chd_rate_gender[k].CHD_Risk = share("gender")
                    /\ \E k \in 1..Len(chd_rate_smoke) :
                          /\ chd_rate_smoke[k].category = r.Smoking_Status
                          /\ chd_rate_smoke[k].CHD_Risk = share("Smoking_Status")
                    /\ \E k \in 1..Len(chd_rate_bp) :
                          /\ chd_rate_bp[k].category = r.BP_Category
                          /\ chd_rate_bp[k].CHD_Risk = share("BP_Category")
                    /\ Count(box_bmi.No_CHD \o box_bmi.CHD_Risk, r.BMI) >= 1
                    /\ Count(box_chol.No_CHD \o box_chol.CHD_Risk, r.totChol) >= 1

\* an unmapped row next to a mapped one of the same gender
C8_Witness ==
    /\ Aggregated
    /\ Len(chd_rate_edu) = 1
    /\ \E i \in Unmapped(filtered_data) :
          /\ filtered_data[i].education = <<5>>
          /\ \E j \in 1..Len(filtered_data) :
                /\ j \notin Unmapped(filtered_data)
                /\ filtered_data[j].gender = filtered_data[i].gender

\* C9: a rerun with the same dataset and the same widget values produces the
\* aggregates the run before it produced, the cached table is never changed
\* once stored, and the loaded and the filtered table stay as they are while
\* the rest of the run uses them.
C9_Idempotent ==
    [][ /\ (cache # <<>> => cache' = cache)
        /\ (pc = "render" /\ previous # Unset => previous' = previous /\ page' = page)
        /\ (pc \in {"filter", "aggregate", "render"} => data' = data)
        /\ (pc \in {"aggregate", "render"} => filtered_data' = filtered_data)
        /\ (pc = "aggregate" =>
               Column(smokers_df', "Smoking_Intensity") = [i \in 1..Len(smokers_df') |->
                                                              cut(smokers_df'[i].cigsPerDay)]
               /\ \A i \in 1..Len(filtered_data) :
                     "Smoking_Intensity" \notin DOMAIN filtered_data'[i]) ]_vars

\* a rerun about to show its aggregates over those of the run before
C9_Witness ==
    /\ pc = "render"
    /\ previous # Unset
    /\ chd_rate_edu # <<>>
    /\ controls # default_controls(data)

\* C10: once the gate is open it stays open, the password input is gone and
\* every rerun goes past the gate; the step that opens the gate is the entry of
\* "CHD2025" and removes the entered text from session state; an entry of any
\* other text leaves the gate closed.
C10_GateMonotone ==
    [][ /\ (GateOpen => GateOpen')
        /\ (GateOpen /\ pc = "gate" => pc' = "load" /\ ~password_input')
        /\ (~GateOpen /\ GateOpen' =>
               typed' = "CHD2025" /\ "password" \notin DOMAIN session_state')
        /\ (~GateOpen /\ typed' # typed /\ typed' = "CHD2025" => GateOpen')
        /\ (~GateOpen /\ typed' # "CHD2025" => ~GateOpen') ]_vars

\* a rerun caused by a filter change going past the open gate
C10_Witness ==
    /\ GateOpen
    /\ pc = "load"
    /\ controls # Unset
    /\ ~password_input

=============================================================================
